---- MODULE Spec2Model ----
(***************************************************************************)
(* Model of the WTEC gateway (src/main.py): a polling bridge that reads a  *)
(* sensor document from every configured source, derives a motion flag     *)
(* from the previous reading of that source, normalizes the document into  *)
(* an eleven-key payload and posts it to the destination mapped to the     *)
(* source.                                                                 *)
(*                                                                         *)
(* Python values are modelled as follows.  None is the integer -1 and raw  *)
(* sensor values are the naturals 0..NumValues-1 (only equality is ever    *)
(* used on them).  A JSON body is a record [kind, stats, fld]: kind says   *)
(* what the top-level value is, stats what data['sensorStats'] is and      *)
(* fld[f] what data['sensorStats'][f] is.  An uncaught Python exception    *)
(* ends the process: pc = "Crashed".                                       *)
(*                                                                         *)
(* requests.get / raise_for_status / response.json all raise subclasses of *)
(* requests.RequestException (requests >= 2.27 for the JSON decode error), *)
(* which fetch_data_from_source catches.                                   *)
(*                                                                         *)
(* netCalls, lastRaw, rd, log, cycled, reads, posts, rawAt and fault are    *)
(* history variables: they record what the network answered, what was      *)
(* written and where an exception escaped, and the program never reads     *)
(* them.                                                                   *)
(***************************************************************************)
EXTENDS Integers, Sequences, FiniteSets, TLC

\* ------------------------------------------------------------------ bounds
MaxSources == 2        \* longest source list; destination lists have up to one more
NumValues == 3         \* number of distinct raw sensor values
MaxPresent == 1        \* non-motion fields of a document that are not absent

\* --------------------------------------------------------- Python values
None == -1
Values == 0 .. (NumValues - 1)

SourceNames == {"a", "b"}
TandemName == <<"t1", "t2", "t3", "t4", "t5">>
NoUrl == "None"

SeqsUpTo(S, n) == UNION {[1 .. k -> S] : k \in 0 .. n}
Range(s) == {s[k] : k \in DOMAIN s}

\* The eleven keys of the payload, and the ten that are copied.
NonMotion ==
    {"power", "ceilingTemperature", "roomTemperature", "illuminance",
     "brightness", "humidity", "pressure", "indoorAirQuality", "co2", "voc"}
Fields == {"motion"} \cup NonMotion

\* ------------------------------------------------------ sensor documents
\* What sits at sensorStats.<field>:
\*   absent  the key is missing
\*   nonobj  a null, scalar or list where the field object is expected
\*   noinst  an object without 'instant' (or with "instant": null)
\*   obj     an object whose 'instant' is v
Absent == [k |-> "absent", v |-> None]
NonObj == [k |-> "nonobj", v |-> None]
NoInst == [k |-> "noinst", v |-> None]
Obj(v) == [k |-> "obj", v |-> v]

MotionShapes == {Absent, NonObj, NoInst} \cup {Obj(v) : v \in Values}
OtherShapes == {NonObj, NoInst, Obj(0)}

AllAbsent == [f \in Fields |-> Absent]

\* Field tables with at most n of the ten other fields present, or all ten
\* present with a value; the motion field takes every shape.
FieldTablesUpTo(n) ==
    UNION {{[f \in Fields |-> IF f = "motion" THEN m
                              ELSE IF f \in S THEN g[f] ELSE Absent] :
                m \in MotionShapes, g \in [S -> OtherShapes]} :
            S \in {T \in SUBSET NonMotion : Cardinality(T) <= n}}
    \cup {[f \in Fields |-> IF f = "motion" THEN m ELSE Obj(0)] : m \in MotionShapes}

\* The value fetch_data_from_source hands back.  kind:
\*   None          the reader returned None
\*   empty_object  {}
\*   falsy         null, 0, "", [] or false
\*   truthy        a non-empty list or string, a non-zero number, true
\*   object        a non-empty JSON object
NoData == [kind |-> "None", stats |-> "absent", fld |-> AllAbsent]

BodiesUpTo(n) ==
    {[kind |-> k, stats |-> "absent", fld |-> AllAbsent] :
        k \in {"empty_object", "falsy", "truthy", "object"}}
    \cup {[kind |-> "object", stats |-> "nonobj", fld |-> AllAbsent]}
    \cup {[kind |-> "object", stats |-> "object", fld |-> t] : t \in FieldTablesUpTo(n)}

\* What the network does with one GET: a connection error, a non-success
\* status, a body that is not JSON, or a JSON body.
ResponsesUpTo(n) ==
    {[status |-> s, body |-> NoData] : s \in {"connerr", "badstatus", "malformed"}}
    \cup {[status |-> "ok", body |-> b] : b \in BodiesUpTo(n)}

\* The documents the sources of one run serve: "plain" sources send documents
\* whose ten other fields are all absent or all present, "varied" sources
\* send documents with up to MaxPresent of them in any shape.
PlainResponses == ResponsesUpTo(0)
VariedResponses == ResponsesUpTo(MaxPresent)
ResponsesOf(family) == IF family = "varied" THEN VariedResponses ELSE PlainResponses

\* What the network does with one POST.
PushOutcomes == {"ok", "connerr", "badstatus"}

\* --------------------------------------------------------- configuration
\* secrets.json as found on disk.  kind:
\*   missing      no such file            (FileNotFoundError -> {})
\*   undecodable  not JSON                (JSONDecodeError -> {})
\*   empty        {} or another falsy JSON value
\*   nonobject    a truthy JSON value that is not an object
\*   object       an object; an absent source_urls / tandem_urls key is <<>>
NoSecrets == [kind |-> "empty", user |-> FALSE, password |-> FALSE,
              source_urls |-> <<>>, tandem_urls |-> <<>>]

TandemLists == {[j \in 1 .. m |-> TandemName[j]] : m \in 0 .. (MaxSources + 1)}

SecretsFiles ==
    {[kind |-> k, user |-> FALSE, password |-> FALSE,
      source_urls |-> <<>>, tandem_urls |-> <<>>] :
        k \in {"missing", "undecodable", "empty", "nonobject"}}
    \cup {[kind |-> "object", user |-> u, password |-> p,
           source_urls |-> s, tandem_urls |-> t] :
            u \in BOOLEAN, p \in BOOLEAN,
            s \in SeqsUpTo(SourceNames, MaxSources), t \in TandemLists}

\* ------------------------------------------------------------ Python dicts
\* d[k] = v: adds the key when it is new.
DictSet(d, k, v) == [x \in (DOMAIN d) \cup {k} |-> IF x = k THEN v ELSE d[x]]

\* d.get(k): None (here the string NoUrl, the values being URLs) when absent.
DictGet(d, k) == IF k \in DOMAIN d THEN d[k] ELSE NoUrl

\* Variant: dict(zip(vs, ks)), the mapping built the wrong way round.
DictZip_swapped(ks, vs) ==
    LET n == IF Len(ks) <= Len(vs) THEN Len(ks) ELSE Len(vs)
        last(k) == CHOOSE j \in 1 .. n :
                      vs[j] = k /\ \A j2 \in 1 .. n : vs[j2] = k => j2 <= j
    IN [k \in {vs[j] : j \in 1 .. n} |-> ks[last(k)]]

\* dict(zip(ks, vs)): zip stops at the shorter list, and a key that occurs
\* several times keeps the value zipped with its last occurrence.
DictZip(ks, vs) ==
    LET n == IF Len(ks) <= Len(vs) THEN Len(ks) ELSE Len(vs)
        last(k) == CHOOSE j \in 1 .. n :
                      ks[j] = k /\ \A j2 \in 1 .. n : ks[j2] = k => j2 <= j
    IN [k \in {ks[j] : j \in 1 .. n} |-> vs[last(k)]]

\* What a Python expression gives: a value, or an uncaught exception.
Ret(v) == [exc |-> FALSE, val |-> v]
Raise == [exc |-> TRUE, val |-> None]

\* ------------------------------------------------------------- the program
VARIABLES
    file,         \* secrets.json on disk
    family,       \* the kind of documents the sources serve in this run
    pc,           \* Idle, Cycling, Pushing, Sleeping, Exited, Crashed
    secrets,      \* main: secrets
    source_urls,  \* main: source_urls
    tandem_urls,  \* main: tandem_urls
    url_mapping,  \* main: url_mapping
    prev_motion,  \* main: prev_motion
    i,            \* position of the for loop in source_urls
    tandem_url,   \* main: tandem_url
    datapush,     \* main: datapush, between its construction and the push
    netCalls,     \* history: a GET or a POST has been issued
    lastRaw,      \* history: per source, the raw motion value of its last reading that had one
    rd,           \* history: the latest read
    log,          \* history: what happened to each binding attempted in this cycle
    cycled,       \* history: a cycle has been completed
    reads,        \* history: the source URLs requested in this cycle, in order
    posts,        \* history: the list positions whose payload was posted in this cycle, in order
    rawAt,        \* history: per list position, the raw motion value of its last reading that had one
    fault         \* history: where an uncaught exception was raised

vars == <<file, family, pc, secrets, source_urls, tandem_urls, url_mapping,
          prev_motion, i, tandem_url, datapush, netCalls, lastRaw, rd, log, cycled,
          reads, posts, rawAt, fault>>

NoPayload == [f \in {} |-> None]
AllNone == [f \in NonMotion |-> None]
NoRead == [out |-> "none", shaped |-> FALSE, raw |-> None, prevRaw |-> None,
           want |-> AllNone]

\* read_secrets: a missing or undecodable file gives the empty dict.
read_secrets(f) == IF f.kind \in {"missing", "undecodable"} THEN NoSecrets ELSE f

\* Variant: the comparison of the two list lengths left out.
StartupCheck_uncounted(s) ==
    IF s.kind = "empty" THEN "exit"
    ELSE IF s.kind # "object" THEN "raise"
    ELSE IF Len(s.source_urls) = 0 \/ Len(s.tandem_urls) = 0 THEN "exit"
    ELSE "cycle"

\* The startup checks of main, lines 53-66: "exit" for a return, "raise" for
\* the AttributeError of .get on a value that is no dict, "cycle" otherwise.
StartupCheck(s) ==
    IF s.kind = "empty" THEN "exit"
    ELSE IF s.kind # "object" THEN "raise"
    ELSE IF Len(s.source_urls) = 0 \/ Len(s.tandem_urls) = 0 THEN "exit"
    ELSE IF Len(s.source_urls) > Len(s.tandem_urls) THEN "exit"
    ELSE "cycle"

\* Variant: no try/except around the request.
fetch_data_from_source_uncaught(s, resp) ==
    IF ~(s.user /\ s.password) THEN [exc |-> TRUE, sent |-> FALSE, val |-> NoData]
    ELSE IF resp.status # "ok" THEN [exc |-> TRUE, sent |-> TRUE, val |-> NoData]
    ELSE [exc |-> FALSE, sent |-> TRUE, val |-> resp.body]

\* fetch_data_from_source: secrets["user"] and secrets["password"] are looked
\* up before the request is made and a KeyError is not caught; every failure
\* of the request or of decoding its body is caught and gives None.
\* sent: the request went out.
fetch_data_from_source(s, resp) ==
    IF ~(s.user /\ s.password) THEN [exc |-> TRUE, sent |-> FALSE, val |-> NoData]
    ELSE IF resp.status # "ok" THEN [exc |-> FALSE, sent |-> TRUE, val |-> NoData]
    ELSE [exc |-> FALSE, sent |-> TRUE, val |-> resp.body]

\* `if data:`
Truthy(data) == data.kind \in {"truthy", "object"}

\* Variant: .get('instant', 0), a default reading in place of None.
InstantOf_defaulted(data, f) ==
    IF data.kind # "object" THEN Raise
    ELSE IF data.stats = "nonobj" THEN Raise
    ELSE LET sh == IF data.stats = "absent" THEN Absent ELSE data.fld[f]
         IN IF sh.k = "nonobj" THEN Raise
            ELSE IF sh.k = "obj" THEN Ret(sh.v) ELSE Ret(0)

\* data.get('sensorStats', {}).get(f, {}).get('instant'): .get exists on
\* dicts only, and a default applies only to a missing key.
InstantOf(data, f) ==
    IF data.kind # "object" THEN Raise
    ELSE IF data.stats = "nonobj" THEN Raise
    ELSE LET sh == IF data.stats = "absent" THEN Absent ELSE data.fld[f]
         IN IF sh.k = "nonobj" THEN Raise ELSE Ret(sh.v)

\* Variant: `if curr_motion:` in place of `is not None` would let nothing
\* through; this one lets everything through (the test left out).
HasMotion_untested(curr_motion) == TRUE

\* `curr_motion is not None`
HasMotion(curr_motion) == curr_motion # None

\* Variant: the docstring's "convert number to boolean", ignoring prev.
motion_conversion_truthy(curr, prev) == IF curr # 0 THEN 1 ELSE 0

motion_conversion(curr, prev) == IF curr # prev THEN 1 ELSE 0

\* Variant: the entry is seeded at every observation (the None test left out).
SeedPrev_always(pm, url, curr) == DictSet(pm, url, curr)

\* Variant: the first observation is not seeded.
SeedPrev_never(pm, url, curr) == pm

\* Lines 84-85: seed the state entry on the first observation.
SeedPrev(pm, url, curr) == IF pm[url] = None THEN DictSet(pm, url, curr) ELSE pm

\* Variant: line 88 left out, the entry keeps the value it was seeded with.
AdvancePrev_never(pm, url, curr) == pm

\* Variant: one previous value shared by all sources (a single global).
AdvancePrev_shared(pm, url, curr) == [x \in DOMAIN pm |-> curr]

\* Line 88.
AdvancePrev(pm, url, curr) == DictSet(pm, url, curr)

\* Variant: a key is set only when its value is there.
Normalize_sparse(data, motion_detected) ==
    LET r == [f \in NonMotion |-> InstantOf(data, f)]
    IN IF \E f \in NonMotion : r[f].exc THEN [exc |-> TRUE, val |-> NoPayload]
       ELSE [exc |-> FALSE,
             val |-> [f \in {"motion"} \cup {g \in NonMotion : r[g].val # None} |->
                         IF f = "motion" THEN motion_detected ELSE r[f].val]]

\* Lines 91-104: the dict display evaluates its ten lookups in turn and any
\* of them may raise.
Normalize(data, motion_detected) ==
    LET r == [f \in NonMotion |-> InstantOf(data, f)]
    IN IF \E f \in NonMotion : r[f].exc THEN [exc |-> TRUE, val |-> NoPayload]
       ELSE [exc |-> FALSE,
             val |-> [f \in Fields |-> IF f = "motion" THEN motion_detected
                                       ELSE r[f].val]]

\* ------------------------------------------- what a response carries
\* The raw motion value of a response: the value at sensorStats.motion.instant
\* of a successfully read document, None when there is none.
MotionValue(resp) ==
    IF resp.status = "ok" /\ resp.body.kind = "object" /\ resp.body.stats = "object"
       /\ resp.body.fld["motion"].k = "obj"
    THEN resp.body.fld["motion"].v
    ELSE None

\* The value at sensorStats.<f>.instant of a document, None when there is none.
FieldValue(body, f) ==
    IF body.kind = "object" /\ body.stats = "object" /\ body.fld[f].k = "obj"
    THEN body.fld[f].v
    ELSE None

\* A well-shaped sensor document: an object whose sensorStats, when present,
\* is an object whose fields, when present, are objects.
WellShaped(resp) ==
    /\ resp.status = "ok"
    /\ resp.body.kind \in {"empty_object", "object"}
    /\ resp.body.stats # "nonobj"
    /\ \A f \in Fields : resp.body.fld[f].k # "nonobj"

\* fail: no document was read; nomotion: a body without a motion value;
\* motion: a body with one.
ReadClass(resp) ==
    IF resp.status # "ok" THEN "fail"
    ELSE IF MotionValue(resp) = None THEN "nomotion"
    ELSE "motion"

\* ------------------------------------------------------------------ Init
Init ==
    /\ file \in SecretsFiles
    /\ family \in {"plain", "varied"}
    /\ family = "varied" => Len(file.source_urls) <= 1
    /\ pc = "Idle"
    /\ secrets = NoSecrets
    /\ source_urls = <<>>
    /\ tandem_urls = <<>>
    /\ url_mapping = [u \in {} |-> NoUrl]
    /\ prev_motion = [u \in {} |-> None]
    /\ i = 0
    /\ tandem_url = NoUrl
    /\ datapush = NoPayload
    /\ netCalls = FALSE
    /\ lastRaw = [u \in {} |-> None]
    /\ rd = NoRead
    /\ log = <<>>
    /\ cycled = FALSE
    /\ reads = <<>>
    /\ posts = <<>>
    /\ rawAt = <<>>
    /\ fault = "none"

\* --------------------------------------------------------------- actions
\* Variant: the table starts at 0, a reading, in place of None.
InitialTable_zero(urls) == [u \in Range(urls) |-> 0]

\* Line 70: {url: None for url in source_urls}.
InitialTable(urls) == [u \in Range(urls) |-> None]

\* main, lines 52-70: load the configuration, check it, build the mapping and
\* the state table.
Startup ==
    /\ pc = "Idle"
    /\ LET s == read_secrets(file)
           r == StartupCheck(s)
       IN /\ secrets' = s
          /\ source_urls' = IF r = "raise" \/ s.kind = "empty" THEN <<>> ELSE s.source_urls
          /\ tandem_urls' = IF r = "raise" \/ s.kind = "empty" THEN <<>> ELSE s.tandem_urls
          /\ IF r = "cycle"
             THEN /\ url_mapping' = DictZip(s.source_urls, s.tandem_urls)
                  /\ prev_motion' = InitialTable(s.source_urls)
                  /\ lastRaw' = [u \in Range(s.source_urls) |-> None]
                  /\ rawAt' = [k \in 1 .. Len(s.source_urls) |-> None]
                  /\ i' = 1
                  /\ pc' = "Cycling"
                  /\ UNCHANGED fault
             ELSE /\ pc' = IF r = "raise" THEN "Crashed" ELSE "Exited"
                  /\ fault' = IF r = "raise" THEN "startup" ELSE "none"
                  /\ UNCHANGED <<url_mapping, prev_motion, lastRaw, rawAt, i>>
    /\ UNCHANGED <<file, family, tandem_url, datapush, netCalls, rd, log, cycled, reads,
                   posts>>

\* main, lines 75-108 and 114-117: one pass of the for loop up to the push.
ReadBinding ==
    /\ pc = "Cycling"
    /\ i <= Len(source_urls)
    /\ \E resp \in ResponsesOf(family) :
        LET source_url == source_urls[i]
            fetched == fetch_data_from_source(secrets, resp)
            data == fetched.val
            cm == InstantOf(data, "motion")
            seeded == SeedPrev(prev_motion, source_url, cm.val)
            motion_detected == motion_conversion(cm.val, seeded[source_url])
            advanced == AdvancePrev(seeded, source_url, cm.val)
            payload == Normalize(data, motion_detected)
            skip == /\ pc' = "Cycling"
                    /\ i' = i + 1
                    /\ log' = Append(log, [read |-> ReadClass(resp), write |-> "none",
                                           to |-> NoUrl])
                    /\ UNCHANGED <<prev_motion, datapush>>
            seen(pushing) ==
                /\ netCalls' = TRUE
                /\ rd' = [out |-> ReadClass(resp), shaped |-> WellShaped(resp),
                          raw |-> MotionValue(resp), prevRaw |-> lastRaw[source_url],
                          want |-> IF pushing
                                   THEN [f \in NonMotion |-> FieldValue(resp.body, f)]
                                   ELSE AllNone]
                /\ lastRaw' = IF MotionValue(resp) # None
                              THEN [lastRaw EXCEPT ![source_url] = MotionValue(resp)]
                              ELSE lastRaw
                /\ rawAt' = IF MotionValue(resp) # None
                            THEN [rawAt EXCEPT ![i] = MotionValue(resp)]
                            ELSE rawAt
                /\ reads' = Append(reads, source_url)
        IN /\ tandem_url' = DictGet(url_mapping, source_url)
           /\ IF fetched.exc
              THEN /\ pc' = "Crashed"
                   /\ fault' = "reader"
                   /\ IF fetched.sent
                      THEN seen(FALSE)
                      ELSE rd' = NoRead /\ UNCHANGED <<netCalls, lastRaw, rawAt, reads>>
                   /\ UNCHANGED <<prev_motion, datapush, i, log>>
              ELSE IF ~Truthy(data)
              THEN skip /\ seen(FALSE) /\ UNCHANGED fault
              ELSE IF cm.exc
              THEN /\ pc' = "Crashed"
                   /\ fault' = "orchestrator"
                   /\ seen(FALSE)
                   /\ UNCHANGED <<prev_motion, datapush, i, log>>
              ELSE IF ~HasMotion(cm.val)
              THEN skip /\ seen(FALSE) /\ UNCHANGED fault
              ELSE /\ prev_motion' = advanced
                   /\ IF payload.exc
                      THEN /\ pc' = "Crashed"
                           /\ fault' = "orchestrator"
                           /\ seen(FALSE)
                           /\ UNCHANGED <<datapush, i, log>>
                      ELSE /\ datapush' = payload.val
                           /\ pc' = "Pushing"
                           /\ seen(TRUE)
                           /\ UNCHANGED <<i, log, fault>>
    /\ UNCHANGED <<file, family, secrets, source_urls, tandem_urls, url_mapping, cycled,
                   posts>>

\* push_data_to_tandem: every failure of the request is caught and printed.
push_data_to_tandem(outcome) == IF outcome = "ok" THEN "ok" ELSE "fail"

\* Variant: a failed push is tried again (a retry loop inside the call).
PushBinding_retry ==
    /\ pc = "Pushing"
    /\ \E outcome \in PushOutcomes :
          /\ netCalls' = TRUE
          /\ posts' = Append(posts, i)
          /\ IF outcome = "ok"
             THEN /\ log' = Append(log, [read |-> rd.out, write |-> "ok", to |-> tandem_url])
                  /\ datapush' = NoPayload
                  /\ rd' = NoRead
                  /\ i' = i + 1
                  /\ pc' = "Cycling"
             ELSE UNCHANGED <<log, datapush, rd, i, pc>>
    /\ UNCHANGED <<file, family, secrets, source_urls, tandem_urls, url_mapping,
                   prev_motion, tandem_url, lastRaw, cycled, reads, rawAt, fault>>

\* main, lines 110-113: the push that ends a pass of the for loop.  datapush
\* is rebuilt before it is read again.
PushBinding ==
    /\ pc = "Pushing"
    /\ IF tandem_url \in Range(tandem_urls)
       THEN \E outcome \in PushOutcomes :
               /\ netCalls' = TRUE
               /\ posts' = Append(posts, i)
               /\ log' = Append(log, [read |-> rd.out, write |-> push_data_to_tandem(outcome),
                                      to |-> tandem_url])
       ELSE /\ log' = Append(log, [read |-> rd.out, write |-> "none", to |-> NoUrl])
            /\ UNCHANGED <<netCalls, posts>>
    /\ datapush' = NoPayload
    /\ rd' = NoRead
    /\ i' = i + 1
    /\ pc' = "Cycling"
    /\ UNCHANGED <<file, family, secrets, source_urls, tandem_urls, url_mapping,
                   prev_motion, tandem_url, lastRaw, cycled, reads, rawAt, fault>>

\* Variant: lines 119-120 indented into the for loop, the sleep begins after
\* the first pass.
Sleep_early ==
    /\ pc = "Cycling"
    /\ i > 1
    /\ pc' = "Sleeping"
    /\ cycled' = TRUE
    /\ UNCHANGED <<file, family, secrets, source_urls, tandem_urls, url_mapping,
                   prev_motion, i, tandem_url, datapush, netCalls, lastRaw, rd, log,
                   reads, posts, rawAt, fault>>

\* main, lines 119-120: the for loop is exhausted, the sleep begins.
Sleep ==
    /\ pc = "Cycling"
    /\ i > Len(source_urls)
    /\ pc' = "Sleeping"
    /\ cycled' = TRUE
    /\ UNCHANGED <<file, family, secrets, source_urls, tandem_urls, url_mapping,
                   prev_motion, i, tandem_url, datapush, netCalls, lastRaw, rd, log,
                   reads, posts, rawAt, fault>>

\* main, lines 120 and 74-75: the sleep returns and the next cycle starts.
Wake ==
    /\ pc = "Sleeping"
    /\ pc' = "Cycling"
    /\ i' = 1
    /\ log' = <<>>
    /\ reads' = <<>>
    /\ posts' = <<>>
    /\ UNCHANGED <<file, family, secrets, source_urls, tandem_urls, url_mapping,
                   prev_motion, tandem_url, datapush, netCalls, lastRaw, rd, cycled,
                   rawAt, fault>>

Next == Startup \/ ReadBinding \/ PushBinding \/ Sleep \/ Wake

Spec == Init /\ [][Next]_vars

\* The process is the only thread of control and every call it makes returns:
\* a step that can be taken is taken.
FairSpec == Spec /\ WF_vars(Next)

\* ---------------------------------------------------------------- claims
Started == pc \in {"Cycling", "Pushing", "Sleeping"}

\* A step that reads the binding at position i.
ReadsAt == pc = "Cycling" /\ i <= Len(source_urls)

\* C1: cold-start suppression.  The payload built from the first reading of a
\* source that carries a motion value (no earlier reading of that source had
\* one, whatever failed before) has motion = 0, whatever the raw value is.
C1_ColdStart ==
    (pc = "Pushing" /\ rd.prevRaw = None) => datapush["motion"] = 0

\* A first reading with a non-zero raw value, taken in a later cycle than the
\* first (the source failed or lacked motion in every earlier cycle).
C1_Witness ==
    /\ pc = "Pushing" /\ cycled
    /\ rd.prevRaw = None /\ rd.raw = 1
    /\ datapush["motion"] = 0

\* C2: for a reading that is not the first one of its source with a motion
\* value, the payload's motion flag is 1 iff the raw value differs from the raw
\* value of the preceding reading of that source that had one, else 0; the
\* state entry is that preceding value through any failed or motionless cycle.
C2_MotionFlag ==
    /\ (pc = "Pushing" /\ rd.prevRaw # None) =>
          /\ datapush["motion"] \in {0, 1}
          /\ datapush["motion"] = 1 <=> rd.raw # rd.prevRaw
    /\ (pc = "Cycling" \/ pc = "Sleeping") =>
          \A u \in DOMAIN lastRaw : prev_motion[u] = lastRaw[u]

\* A later cycle in which a source reports a changed value after a binding of
\* the same cycle failed or lacked motion, and one in which it reports the
\* same value.
C2_Witness ==
    /\ pc = "Pushing" /\ cycled
    /\ rd.prevRaw # None /\ rd.raw # rd.prevRaw /\ rd.raw = 0
    /\ datapush["motion"] = 1
    /\ Len(log) = 1 /\ log[1].read \in {"fail", "nomotion"}

\* C3: the state table never has more entries than configured sources, its key
\* set is fixed at startup, and an entry changes only in a step that reads
\* that source and gets a document with a motion value.
C3_TableSize ==
    /\ Cardinality(DOMAIN prev_motion) <= Len(source_urls)
    /\ Started => DOMAIN prev_motion = Range(source_urls)

C3_EntryChange ==
    pc # "Idle" =>
        /\ DOMAIN prev_motion' = DOMAIN prev_motion
        /\ \A u \in DOMAIN prev_motion :
              prev_motion'[u] # prev_motion[u] =>
                  ReadsAt /\ source_urls[i] = u /\ rd'.out = "motion"

C3_StateTable == []C3_TableSize /\ [][C3_EntryChange]_vars

\* An entry that held a value has just been changed by a reading.
C3_Witness ==
    /\ pc = "Pushing"
    /\ rd.prevRaw # None
    /\ prev_motion[source_urls[i]] # rd.prevRaw
    /\ Cardinality(DOMAIN prev_motion) = 2

\* C4: nothing a source or a destination returns ends the process: the
\* process is never found crashed after a response to a read was received.
C4_NoFatalOutcome == ~(pc = "Crashed" /\ rd.out # "none")

\* The next binding of the cycle can always be read, and a finished cycle can
\* always go to sleep and wake up.
CycleGoesOn ==
    /\ ReadsAt => ENABLED ReadBinding
    /\ (pc = "Cycling" /\ i > Len(source_urls)) => ENABLED Sleep
    /\ pc = "Sleeping" => ENABLED Wake

\* C5: a step whose read fails leaves the whole state table unchanged, builds
\* no payload and issues no write for that binding, and moves on to the next
\* binding of the same cycle, whose read can then be made.
C5_FailedReadStep ==
    (ReadsAt /\ rd'.out = "fail") =>
        /\ prev_motion' = prev_motion
        /\ datapush' = NoPayload
        /\ pc' = "Cycling" /\ i' = i + 1
        /\ log' = Append(log, [read |-> "fail", write |-> "none", to |-> NoUrl])

C5_NoWriteForFailedRead ==
    \A k \in DOMAIN log : log[k].read = "fail" => log[k].write = "none"

C5_FetchFailure ==
    /\ [][C5_FailedReadStep]_vars
    /\ [](C5_NoWriteForFailedRead /\ CycleGoesOn)

\* The first binding of a cycle failed, its entry still holds the value of an
\* earlier cycle, and the second binding has been read and pushed.
C5_Witness ==
    /\ Len(log) = 2
    /\ log[1].read = "fail" /\ log[2].read = "motion" /\ log[2].write = "ok"
    /\ prev_motion[source_urls[1]] # None
    /\ source_urls[1] # source_urls[2]

\* C6: a step whose read succeeds with a document that has no motion value
\* leaves the whole state table unchanged and builds no payload, so that no
\* write is issued; when the document is a well-shaped sensor document the
\* binding is skipped and the next binding of the cycle proceeds.
C6_NoMotionStep ==
    (ReadsAt /\ rd'.out = "nomotion") =>
        /\ prev_motion' = prev_motion
        /\ datapush' = NoPayload
        /\ pc' # "Pushing"
        /\ UNCHANGED log \/ log' = Append(log, [read |-> "nomotion", write |-> "none",
                                               to |-> NoUrl])
        /\ rd'.shaped => /\ pc' = "Cycling" /\ i' = i + 1
                         /\ Len(log') = Len(log) + 1

C6_NoWriteWithoutMotion ==
    \A k \in DOMAIN log : log[k].read = "nomotion" => log[k].write = "none"

C7_AdvancedBeforePush ==
    pc = "Pushing" => prev_motion[source_urls[i]] = rd.raw

C7_FailedPushStep ==
    (pc = "Pushing" /\ pc' = "Cycling" /\ log'[Len(log')].write = "fail") =>
        /\ prev_motion' = prev_motion
        /\ prev_motion'[source_urls[i]] = rd.raw
        /\ i' = i + 1

C7_PushFailure ==
    /\ [][C7_FailedPushStep]_vars
    /\ [](C7_AdvancedBeforePush /\ CycleGoesOn)

\* The write of the first binding failed after its reading changed the entry
\* from 0 to 1, the entry holds 1, and the second binding has been attempted.
C7_Witness ==
    /\ Len(log) = 2 /\ cycled
    /\ log[1].read = "motion" /\ log[1].write = "fail"
    /\ source_urls[1] # source_urls[2]
    /\ prev_motion[source_urls[1]] = 1

\* The configuration lets the process cycle: a loaded, non-empty document with
\* a non-empty source list and at least as many destinations as sources.
GateOpen ==
    /\ file.kind = "object"
    /\ file.source_urls # <<>>
    /\ file.tandem_urls # <<>>
    /\ Len(file.tandem_urls) >= Len(file.source_urls)

\* C8: the process cycles only with a configuration that opens the gate; with
\* any other it ends at startup and no network call is ever made.
C8_StartupGate ==
    /\ Started => GateOpen
    /\ ~GateOpen => /\ ~netCalls
                    /\ pc \in {"Idle", "Exited", "Crashed"}
                    /\ DOMAIN prev_motion = {}

\* Two sources and one destination: exited, nothing sent.
C8_Witness ==
    /\ pc = "Exited"
    /\ Len(file.source_urls) = 2 /\ Len(file.tandem_urls) = 1
    /\ file.user /\ file.password
    /\ ~netCalls

\* C9: the payload built from the reading at position i of the source list is
\* written to the destination at position i of the destination list.
C9_Positional == pc = "Pushing" => tandem_url = tandem_urls[i]

\* C10: every payload handed to the writer has exactly the eleven keys, motion
\* is 0 or 1, every other key holds the document's sensorStats.<key>.instant
\* value or None when there is none; and every well-shaped document with a
\* motion value gets its payload, whichever of its other fields are missing.
C10_Payload ==
    pc = "Pushing" =>
        /\ DOMAIN datapush =
              {"motion", "power", "ceilingTemperature", "roomTemperature",
               "illuminance", "brightness", "humidity", "pressure",
               "indoorAirQuality", "co2", "voc"}
        /\ Cardinality(DOMAIN datapush) = 11
        /\ datapush["motion"] \in {0, 1}
        /\ \A f \in NonMotion : datapush[f] = rd.want[f]

C10_TotalStep ==
    (ReadsAt /\ rd'.out = "motion" /\ rd'.shaped) => pc' = "Pushing"

C10_Normalization == []C10_Payload /\ [][C10_TotalStep]_vars

\* A payload with one field present and nine missing.
C10_Witness ==
    /\ pc = "Pushing"
    /\ datapush["humidity"] = 0
    /\ \A f \in NonMotion \ {"humidity"} : datapush[f] = None

\* C11: the orchestrator goes Idle -> Cycling -> Sleeping -> Cycling; within
\* a cycle the sources are requested in list order, each list position once
\* (a URL listed twice is requested twice), and the sleep begins only when
\* every position has been requested.
C11_InOrderOnce ==
    /\ Started => /\ Len(reads) <= Len(source_urls)
                  /\ \A k \in DOMAIN reads : reads[k] = source_urls[k]
    /\ pc = "Cycling" => Len(reads) = i - 1 /\ Len(log) = i - 1
    /\ pc = "Pushing" => Len(reads) = i /\ Len(log) = i - 1
    /\ pc = "Sleeping" => reads = source_urls /\ Len(log) = Len(source_urls)

C11_Transition ==
    /\ pc = "Idle" => pc' \in {"Cycling", "Exited", "Crashed"}
    /\ pc = "Cycling" => pc' \in {"Cycling", "Pushing", "Sleeping", "Crashed"}
    /\ pc = "Pushing" => pc' = "Cycling"
    /\ pc = "Sleeping" => pc' = "Cycling" /\ reads' = <<>> /\ i' = 1
    /\ pc \in {"Exited", "Crashed"} => pc' = pc
    /\ (Started /\ pc' = pc /\ pc = "Cycling") => Len(reads') = Len(reads) + 1

C11_StateMachine == []C11_InOrderOnce /\ [][C11_Transition]_vars

\* A later cycle of a run whose source list names the same URL twice has
\* requested it twice, the first request failing, and gone to sleep.
C11_Witness ==
    /\ pc = "Sleeping"
    /\ source_urls = <<"a", "a">>
    /\ reads = <<"a", "a">>
    /\ rawAt[1] # None /\ log[1].read = "fail"

\* Cycling has begun: the startup checks passed at some earlier step.
Begun == Started \/ (pc = "Crashed" /\ fault # "startup")

\* C12: once cycling has begun the loop never ends, so that under FairSpec
\* every source is requested again in every later cycle: in every state after
\* the startup the process has a next step to take.
C12_NeverStops == Begun => ENABLED Next

\* The liveness itself: every list position is requested again and again.
C12_ReadForever ==
    \A k \in 1 .. (MaxSources + 1) :
        /\ (Started /\ k <= Len(source_urls)) ~> (Len(reads) >= k)
        /\ (Started /\ k <= Len(source_urls)) ~> (Len(reads) < k)

\* What the code does guarantee: every list position is requested again and
\* again unless the process has crashed.
C12_ReadForeverUnlessCrashed ==
    \A k \in 1 .. (MaxSources + 1) :
        /\ (Started /\ k <= Len(source_urls)) ~> (Len(reads) >= k \/ pc = "Crashed")
        /\ (Started /\ k <= Len(source_urls)) ~> (Len(reads) < k \/ pc = "Crashed")

\* C13: with every configuration that passes the startup checks, every call
\* of fetch_data_from_source hands a document or None back to main: no
\* exception is ever raised out of the reader.
C13_ReaderReturns == fault # "reader"

\* The number of posts issued in this cycle for list position p.
PostsFor(p) == Cardinality({k \in DOMAIN posts : posts[k] = p})

\* C14: in a cycle, a binding gets exactly one write when its read succeeded
\* with a motion value and none otherwise; a write is issued only after the
\* read of its binding in the same cycle, for a reading with a motion value
\* and with the state entry already advanced to that reading.
C14_WriteCount ==
    /\ \A k \in DOMAIN log :
          /\ PostsFor(k) = IF log[k].read = "motion" THEN 1 ELSE 0
          /\ log[k].write # "none" <=> log[k].read = "motion"
    /\ \A k \in DOMAIN posts : posts[k] <= Len(reads) /\ posts[k] \in DOMAIN log
    /\ Started => \A p \in (1 .. Len(source_urls)) \ DOMAIN log : PostsFor(p) = 0
    /\ pc = "Pushing" =>
          /\ Len(reads) = i
          /\ rd.out = "motion"
          /\ prev_motion[source_urls[i]] = rd.raw
          /\ lastRaw[source_urls[i]] = rd.raw
          /\ ENABLED PushBinding

C14_WriteStep ==
    /\ (ReadsAt /\ rd'.out = "motion" /\ rd'.shaped) => pc' = "Pushing"
    /\ (ReadsAt /\ rd'.out # "motion") => pc' # "Pushing"
    /\ pc = "Pushing" => posts' = Append(posts, i) /\ Len(log') = i
    /\ pc # "Pushing" => (posts' = posts \/ posts' = <<>>)

C15_OtherEntries ==
    (ReadsAt \/ pc = "Pushing") =>
        \A u \in DOMAIN prev_motion :
            u # source_urls[i] => /\ u \in DOMAIN prev_motion'
                                  /\ prev_motion'[u] = prev_motion[u]

C15_OwnReadings ==
    pc = "Pushing" =>
        datapush["motion"] =
            IF rd.prevRaw # None /\ rd.raw # rd.prevRaw THEN 1 ELSE 0

C15_Frame == [][C15_OtherEntries]_vars /\ []C15_OwnReadings

\* The entry of one source has just moved from 0 to 1 while the entry of the
\* other source holds 2.
C15_Witness ==
    /\ pc = "Pushing"
    /\ rd.prevRaw = 0 /\ rd.raw = 1
    /\ \E u \in DOMAIN prev_motion : u # source_urls[i] /\ prev_motion[u] = 2

\* C16: every entry of the state table is None when cycling starts; an entry
\* that holds a value holds a value in every later state, whatever fails
\* afterwards; after a reading with a motion value has been processed the entry
\* equals that reading's raw value.
C16_EntryStep ==
    /\ (pc = "Idle" /\ pc' = "Cycling") =>
          /\ DOMAIN prev_motion' = Range(source_urls')
          /\ \A u \in DOMAIN prev_motion' : prev_motion'[u] = None
    /\ \A u \in DOMAIN prev_motion :
          prev_motion[u] # None => u \in DOMAIN prev_motion' /\ prev_motion'[u] # None
    /\ (ReadsAt /\ rd'.out = "motion") =>
          /\ rd'.raw # None
          /\ prev_motion'[source_urls[i]] = rd'.raw

C16_EntryAtPush ==
    pc = "Pushing" => rd.raw \in Values /\ prev_motion[source_urls[i]] = rd.raw

C16_Lifecycle == [][C16_EntryStep]_vars /\ []C16_EntryAtPush

\* In a later cycle the only source fails or lacks motion, and its entry still
\* holds the value of an earlier cycle.
C16_Witness ==
    /\ pc = "Sleeping"
    /\ Len(source_urls) = 1
    /\ log[1].read \in {"fail", "nomotion"}
    /\ prev_motion[source_urls[1]] = 2

\* C17: once the startup checks have passed every source of the list has a
\* destination in the mapping and that destination is in the destination
\* list, so the "No Tandem URL mapped" branch is never taken: every payload
\* that was built is posted.
C17_Mapped ==
    /\ Started =>
          \A k \in 1 .. Len(source_urls) :
              /\ source_urls[k] \in DOMAIN url_mapping
              /\ url_mapping[source_urls[k]] \in Range(tandem_urls)
    /\ pc = "Pushing" => tandem_url \in Range(tandem_urls)
    /\ \A k \in DOMAIN log :
          log[k].read = "motion" =>
              /\ log[k].write \in {"ok", "fail"}
              /\ log[k].to = url_mapping[source_urls[k]]

C17_PostStep ==
    pc = "Pushing" => /\ posts' = Append(posts, i)
                      /\ log'[i].to \in Range(tandem_urls)

C17_AlwaysMapped == []C17_Mapped /\ [][C17_PostStep]_vars

\* Three destinations for a source listed twice: both payloads are posted,
\* and the third destination is in no binding.
C17_Witness ==
    /\ pc = "Sleeping"
    /\ source_urls = <<"a", "a">> /\ Len(tandem_urls) = 3
    /\ posts = <<1, 2>>
    /\ log[1].write = "ok" /\ log[2].write = "fail"

\* Position j is the latest position before i of the same URL whose reading
\* in this cycle carried a motion value.
EarlierSameUrl(j) ==
    /\ j \in 1 .. (i - 1)
    /\ source_urls[j] = source_urls[i]
    /\ log[j].read = "motion"
    /\ \A j2 \in (j + 1) .. (i - 1) :
          ~(source_urls[j2] = source_urls[i] /\ log[j2].read = "motion")

\* C18: the state table is keyed by URL, so the list positions of one URL
\* share one entry: the reading at a later position is compared against the
\* reading taken at the earlier position in the same cycle, and the first
\* reading is suppressed only when no position of that URL has had a reading.
C18_SharedEntry ==
    /\ Started => /\ DOMAIN prev_motion = Range(source_urls)
                  /\ Cardinality(DOMAIN prev_motion) = Cardinality(Range(source_urls))
    /\ pc = "Pushing" =>
          /\ \A j \in 1 .. MaxSources + 1 :
                EarlierSameUrl(j) => (datapush["motion"] = 1 <=> rd.raw # rawAt[j])
          /\ rd.prevRaw = None =>
                \A j \in (1 .. Len(source_urls)) \ {i} :
                    source_urls[j] = source_urls[i] => rawAt[j] = None
          /\ (\E j \in (1 .. Len(source_urls)) \ {i} :
                 source_urls[j] = source_urls[i] /\ rawAt[j] # None) =>
                (datapush["motion"] = 1 <=> rd.raw # rd.prevRaw)

\* The first cycle of a run whose list names one URL twice: the very first
\* reading at position 2 reports motion, compared with the reading at
\* position 1.
C18_Witness ==
    /\ pc = "Pushing" /\ ~cycled
    /\ source_urls = <<"a", "a">> /\ i = 2
    /\ Cardinality(DOMAIN prev_motion) = 1
    /\ rawAt[1] = 0 /\ rd.raw = 1
    /\ datapush["motion"] = 1

====
